---- MODULE Spec2Model ----
(***************************************************************************)
(* A model of travel_assistant.py: module start-up (environment check),    *)
(* the two tool wrappers get_weather_forecast and find_places_of_interest, *)
(* the input/output guardrails and the command-line entry point.           *)
(*                                                                         *)
(* Python values are modelled as follows.                                  *)
(*   - a JSON value that the code reads is a record [t, v]: t is its type  *)
(*     ("absent" when the key is missing, "null", "str", "num", "dict",    *)
(*     "list") and v its text;                                             *)
(*   - an exception is the name of its class, "none" when nothing is       *)
(*     raised;                                                             *)
(*   - the text typed at the prompt is a sequence of characters, so that   *)
(*     str.strip() is computed and not assumed.                            *)
(***************************************************************************)
EXTENDS Integers, Sequences, FiniteSets, TLC

VARIABLES
    pc,          \* position of the script: start, crashed, main, exited, running, done
    env,         \* what os.getenv returns for the three keys, after load_dotenv
    rawCity,     \* the text typed at the prompt, "unread" before input() returns
    city,        \* the stripped city
    prompt,      \* the prompt handed to the agent, NoPrompt before it is built
    out,         \* what was printed on standard output
    log,         \* the events written to travel_assistant.log
    net,         \* network requests issued so far, by kind
    exitStatus,  \* exit status of the process, -1 while it runs
    uncaught,    \* the exception that ended the script, "none" otherwise
    runs,        \* calls of Runner.run_sync
    inputScan,   \* verdict of the input guardrail: none, on_topic, off_topic
    outcome,     \* how Runner.run_sync ended: none, final, input_tripwire, ...
    toolCalls,   \* tool invocations made by the agent runtime in this run
    weather,     \* the current / last call of get_weather_forecast
    places       \* the current / last call of find_places_of_interest

vars == <<pc, env, rawCity, city, prompt, out, log, net, exitStatus, uncaught,
          runs, inputScan, outcome, toolCalls, weather, places>>

----------------------------------------------------------------------------
(* Bounds of the model *)

\* longest text typed at the prompt
MaxCityLen == 2
\* tool invocations the agent runtime makes in one run
MaxToolCalls == 2
\* longest upstream forecast list (the code keeps ForecastLimit of them)
MaxForecasts == 9
\* longest upstream list of places
MaxPlaces == 3

\* data.get('list', [])[:8]
ForecastLimit == 8

Min(a, b) == IF a <= b THEN a ELSE b

----------------------------------------------------------------------------
(* JSON values *)

Absent == [t |-> "absent", v |-> ""]
JNull == [t |-> "null", v |-> ""]
JStr(s) == [t |-> "str", v |-> s]
JNum(s) == [t |-> "num", v |-> s]
JDict(s) == [t |-> "dict", v |-> s]
JList(s) == [t |-> "list", v |-> s]

\* dict.get(key, default): the default only when the key is missing
GetOr(val, default) == IF val.t = "absent" THEN default ELSE val

\* str(x) inside an f-string
PyStr(val) == IF val.t = "null" THEN "None" ELSE val.v

----------------------------------------------------------------------------
(* Log events *)

LogEvent(level, src, text, trace) ==
    [level |-> level, src |-> src, text |-> text, trace |-> trace]

HasError(events) == \E i \in 1..Len(events) : events[i].level = "ERROR"
HasTrace(events) == \E i \in 1..Len(events) : events[i].trace

----------------------------------------------------------------------------
(* get_weather_forecast *)

\* One element of the upstream 'list'.  shape: what the element is; dt: its
\* "dt_txt"; weather: what f["weather"] is ("obj": a list whose first element
\* is a dict, "str0": a list whose first element is a string, "empty": an
\* empty list); desc: "description" inside weather[0]; main: what f["main"]
\* is; temp: "temp" inside it.
Entry(shape, dt, wx, desc, main, temp) ==
    [shape |-> shape, dt |-> dt, weather |-> wx, desc |-> desc, main |-> main,
     temp |-> temp]

GoodEntry(time, desc, temp) ==
    Entry("dict", JStr(time), "obj", JStr(desc), "obj", JNum(temp))

E1 == GoodEntry("2024-01-01 00:00:00", "light rain", "10.5")
E2 == GoodEntry("2024-01-01 03:00:00", "clear sky", "21")

EntryKinds ==
    { E1, E2,
      GoodEntry("", "clear sky", "21"),                                   \* empty dt_txt
      GoodEntry("2024-01-01 06:00:00", "", "3"),                          \* empty description
      Entry("dict", Absent, "obj", JStr("mist"), "obj", JNum("7")),       \* no dt_txt
      Entry("dict", JNum("1704067200"), "obj", JStr("mist"), "obj", JNum("7")),
      Entry("dict", JStr("2024-01-01 09:00:00"), "empty", Absent, "obj", JNum("7")),
      Entry("dict", JStr("2024-01-01 09:00:00"), "obj", JStr("snow"), "null", Absent),
      Entry("dict", JStr("2024-01-01 09:00:00"), "obj", JStr("snow"), "obj", Absent),
      Entry("str", Absent, "absent", Absent, "absent", Absent) }

\* The first exception raised while WeatherForecast(time=f["dt_txt"],
\* description=f["weather"][0]["description"], temp=f"{f['main']['temp']}..")
\* is evaluated and validated for one element; "none" when it is built.
\* pydantic's ValidationError is a ValueError.
EntryExc(e) ==
    IF e.shape # "dict" THEN "TypeError"
    ELSE IF e.dt.t = "absent" THEN "KeyError"
    ELSE IF e.weather = "absent" THEN "KeyError"
    ELSE IF e.weather = "null" THEN "TypeError"
    ELSE IF e.weather = "empty" THEN "IndexError"
    ELSE IF e.weather = "str0" THEN "TypeError"
    ELSE IF e.desc.t = "absent" THEN "KeyError"
    ELSE IF e.main = "absent" THEN "KeyError"
    ELSE IF e.main = "null" THEN "TypeError"
    ELSE IF e.temp.t = "absent" THEN "KeyError"
    ELSE IF e.dt.t # "str" \/ e.desc.t # "str" THEN "ValueError"
    ELSE "none"

\* WeatherForecast(...).model_dump() of one element
MapEntry(e) ==
    [time |-> e.dt.v, description |-> e.desc.v, temp |-> PyStr(e.temp) \o "°C"]

\* WeatherForecast(time="", description=f"Parsing error: {e}", temp="").model_dump()
Sentinel(exc) ==
    [time |-> "", description |-> "Parsing error: " \o exc, temp |-> ""]

\* Mutant of TakeForecasts: the slice is forgotten
TakeForecastsNoSlice(entries) == entries

\* data.get('list', [])[:8]
TakeForecasts(entries) == SubSeq(entries, 1, Min(Len(entries), ForecastLimit))

\* Mutant of CodOk: the number 200 passes as well
CodOkAnyType(cod) == cod.t \in {"str", "num"} /\ cod.v = "200"

\* data.get("cod") != "200" is false only for the string "200"
CodOk(cod) == cod = JStr("200")

\* The exception the list comprehension raises: that of the first element
\* that cannot be built.
FirstExc(entries) ==
    IF \A i \in 1..Len(entries) : EntryExc(entries[i]) = "none" THEN "none"
    ELSE LET i == CHOOSE k \in 1..Len(entries) :
                      /\ EntryExc(entries[k]) # "none"
                      /\ \A m \in 1..(k - 1) : EntryExc(entries[m]) = "none"
         IN  EntryExc(entries[i])

\* The exception raised inside the try block of get_weather_forecast, "none"
\* when the list is returned.
WeatherInner(resp) ==
    IF resp.transport # "ok" THEN "ConnectionError"          \* requests.get
    ELSE IF resp.http # "ok" THEN "HTTPError"                \* raise_for_status
    ELSE IF resp.body = "notjson" THEN "JSONDecodeError"     \* response.json
    ELSE IF resp.body # "object" THEN "AttributeError"       \* data.get on a non-dict
    ELSE IF ~CodOk(resp.cod) THEN "ValueError"
    ELSE IF resp.list = "absent" THEN "none"
    ELSE IF resp.list = "null" THEN "TypeError"              \* None[:8]
    ELSE IF resp.list = "str" THEN "TypeError"               \* "x"["dt_txt"]
    ELSE FirstExc(TakeForecasts(resp.entries))

\* Which except clause of get_weather_forecast takes the exception.
\* requests' JSONDecodeError is a RequestException (and a ValueError): the
\* first clause takes it.
WeatherHandler(exc) ==
    IF exc \in {"ConnectionError", "HTTPError", "JSONDecodeError"} THEN "request"
    ELSE IF exc \in {"KeyError", "IndexError", "ValueError"} THEN "parsing"
    ELSE "escapes"

\* What the except clauses log
WeatherErrorLog(exc) ==
    IF WeatherHandler(exc) = "request"
    THEN << LogEvent("ERROR", "weather", "Request error", FALSE),
            LogEvent("ERROR", "weather", "traceback", TRUE) >>
    ELSE IF WeatherHandler(exc) = "parsing"
    THEN << LogEvent("ERROR", "weather", "Parsing error", FALSE) >>
    ELSE << >>

\* One invocation of get_weather_forecast on an upstream response.
\* result: the returned list; escaped: the exception that leaves the
\* function; inner: the exception raised inside the try block; requests: the
\* number of upstream requests issued; logged: the events logged.
get_weather_forecast(resp) ==
    LET exc == WeatherInner(resp)
        taken == IF resp.list = "list" THEN TakeForecasts(resp.entries) ELSE << >>
    IN  [ result   |-> IF exc = "none"
                       THEN [i \in 1..Len(taken) |-> MapEntry(taken[i])]
                       ELSE IF WeatherHandler(exc) = "escapes" THEN << >>
                       ELSE << Sentinel(exc) >>,
          escaped  |-> IF exc # "none" /\ WeatherHandler(exc) = "escapes"
                       THEN exc ELSE "none",
          inner    |-> exc,
          requests |-> 1,
          logged   |-> << LogEvent("INFO", "weather", "Fetching weather forecast", FALSE) >>
                       \o (IF exc = "none" THEN << >> ELSE WeatherErrorLog(exc)) ]

\* Upstream responses.  transport: whether requests.get returned; http:
\* whether the status passes raise_for_status; body: "notjson", "nondict" (a
\* JSON array, string, number or null) or "object"; cod: the body's "cod";
\* list: what the body's "list" is; entries: its elements when it is a list.
WeatherResponse(transport, http, body, cod, list, entries) ==
    [transport |-> transport, http |-> http, body |-> body, cod |-> cod,
     list |-> list, entries |-> entries]

CodValues == { Absent, JStr("200"), JStr("404"), JNum("200") }

\* Lists of up to n elements in which at most two elements differ from E1
ForecastLists(n) ==
    { << >> } \cup
    UNION { { [k \in 1..m |-> IF k = i THEN a ELSE IF k = j THEN b ELSE E1] :
                i \in 1..m, j \in 1..m, a \in EntryKinds, b \in EntryKinds } :
            m \in 1..n }

WeatherResponsesUpTo(n) ==
    { WeatherResponse("fail", "ok", "object", Absent, "absent", << >>),
      WeatherResponse("ok", "error", "object", Absent, "absent", << >>),
      WeatherResponse("ok", "ok", "notjson", Absent, "absent", << >>),
      WeatherResponse("ok", "ok", "nondict", Absent, "absent", << >>) }
    \cup { WeatherResponse("ok", "ok", "object", c, l, << >>) :
             c \in CodValues, l \in {"absent", "null", "str"} }
    \cup { WeatherResponse("ok", "ok", "object", c, "list", es) :
             c \in CodValues, es \in ForecastLists(n) }

WeatherResponses == WeatherResponsesUpTo(MaxForecasts)

NoWeatherCall ==
    [state |-> "idle", resp |-> WeatherResponse("ok", "ok", "object", Absent, "absent", << >>),
     result |-> << >>, escaped |-> "none", inner |-> "none", requests |-> 0,
     logged |-> << >>]

----------------------------------------------------------------------------
(* Environment *)

\* os.getenv(key): None when the variable is unset, else its text
Unset == [set |-> FALSE, v |-> ""]
EnvStr(s) == [set |-> TRUE, v |-> s]

\* Mutant of Falsy: `value is None`
FalsyNoneOnly(value) == ~value.set

\* `not value`: None and the empty string are falsy
Falsy(value) == ~value.set \/ value.v = ""

EnvKeys == <<"OPENAI_API_KEY", "GOOGLE_PLACES_API_KEY", "WEATHER_API_KEY">>

GoodGoogleKey == EnvStr("AIzaSyExample")
OtherGoogleKey == EnvStr("places-key")

EnvValues(key) ==
    IF key = "GOOGLE_PLACES_API_KEY"
    THEN { Unset, EnvStr(""), GoodGoogleKey, OtherGoogleKey }
    ELSE { Unset, EnvStr(""), EnvStr("secret") }

EnvKeySet == { EnvKeys[i] : i \in 1..Len(EnvKeys) }

Environments ==
    { [k \in EnvKeySet |->
         IF k = EnvKeys[1] THEN a ELSE IF k = EnvKeys[2] THEN b ELSE c] :
        a \in EnvValues(EnvKeys[1]), b \in EnvValues(EnvKeys[2]),
        c \in EnvValues(EnvKeys[3]) }

\* for key, value in required_env.items(): if not value: the first such key
\* in the order of the dict, "" when there is none
FirstMissing(e) ==
    IF Falsy(e[EnvKeys[1]]) THEN EnvKeys[1]
    ELSE IF Falsy(e[EnvKeys[2]]) THEN EnvKeys[2]
    ELSE IF Falsy(e[EnvKeys[3]]) THEN EnvKeys[3]
    ELSE ""

----------------------------------------------------------------------------
(* find_places_of_interest *)

Place(shape, name, addr, status, hours, rating, types, total) ==
    [shape |-> shape, name |-> name, formatted_address |-> addr,
     business_status |-> status, opening_hours |-> hours, rating |-> rating,
     types |-> types, user_ratings_total |-> total]

P1 == Place("dict", JStr("Louvre"), JStr("Rue de Rivoli"), JStr("OPERATIONAL"),
            JDict("open_now"), JNum("4.7"), JList("museum"), JNum("1200"))
P2 == Place("dict", JStr("Tuileries"), Absent, Absent, Absent, JNum("4"),
            Absent, Absent)

PlaceKinds ==
    { P1, P2,
      Place("dict", Absent, Absent, JNull, JNull, JStr("4.5"), JNull, JNull),
      Place("dict", JNull, JStr("Quai"), Absent, Absent, Absent, Absent, Absent),
      Place("dict", JStr("Orsay"), JStr("Quai"), Absent, JStr("always"), Absent,
            Absent, Absent),
      Place("dict", JStr("Orsay"), JStr("Quai"), Absent, Absent, JDict("stars"),
            Absent, Absent),
      Place("str", Absent, Absent, Absent, Absent, Absent, Absent, Absent) }

\* place.get(key) without a default: None when the key is missing
GetNone(val) == GetOr(val, JNull)

\* Texts that float() accepts, among those the model uses
NumericTexts == { "4.5" }

\* float(x) as model_dump shows it: an int gains ".0"
ToFloat(val) ==
    IF val.t \in {"num", "str"}
    THEN JNum(IF val.v = "4" THEN "4.0" ELSE val.v)
    ELSE JNull

\* The arguments of PlaceOfInterest(...) for one place
PlaceArgs(p) ==
    [name               |-> GetOr(p.name, JStr("No name provided")),
     description        |-> GetOr(p.formatted_address, JStr("No address provided")),
     business_status    |-> GetOr(p.business_status, JStr("No business status provided")),
     opening_hours      |-> GetNone(p.opening_hours),
     rating             |-> GetNone(p.rating),
     types              |-> GetNone(p.types),
     user_ratings_total |-> GetNone(p.user_ratings_total)]

\* Whether PlaceOfInterest accepts the arguments (name: str, description:
\* str, the others Optional[str], Optional[dict], Optional[float],
\* Optional[List[str]], Optional[int])
PlaceValid(a) ==
    /\ a.name.t = "str"
    /\ a.description.t = "str"
    /\ a.business_status.t \in {"str", "null"}
    /\ a.opening_hours.t \in {"dict", "null"}
    /\ \/ a.rating.t \in {"num", "null"}
       \/ a.rating.t = "str" /\ a.rating.v \in NumericTexts
    /\ a.types.t \in {"list", "null"}
    /\ a.user_ratings_total.t \in {"num", "null"}

\* The exception raised while one place is mapped, "none" when it is
PlaceExc(p) ==
    IF p.shape # "dict" THEN "AttributeError"        \* place.get on a non-dict
    ELSE IF ~PlaceValid(PlaceArgs(p)) THEN "ValidationError"
    ELSE "none"

\* place_info.model_dump()
MapPlace(p) == [PlaceArgs(p) EXCEPT !.rating = ToFloat(@)]

\* googlemaps.Client(key=...): the client rejects a key that does not start
\* with "AIza"
ClientExc(key) ==
    IF key \in { GoodGoogleKey } THEN "none" ELSE "ValueError"

\* Mutant of PlacesHandler: the try statement has no except clause
PlacesHandlerNone(exc) == "escapes"

\* Which except clause of find_places_of_interest takes an exception raised
\* inside the try block: ApiError first, then Exception
PlacesHandler(exc) ==
    IF exc = "ApiError" THEN "api" ELSE "unexpected"

PlacesErrorLog(exc) ==
    IF PlacesHandler(exc) = "api"
    THEN << LogEvent("ERROR", "places", "Google Places API error", FALSE) >>
    ELSE IF PlacesHandler(exc) = "unexpected"
    THEN << LogEvent("ERROR", "places", "Unexpected error", FALSE),
            LogEvent("ERROR", "places", "traceback", TRUE) >>
    ELSE << >>

\* Mutant of PlacesFailureResult: the places mapped so far are returned
PlacesPartialResult(places_list) == places_list

\* What an except clause returns; places_list holds the places mapped so far
PlacesFailureResult(places_list) == << >>

\* The number of places mapped before the first that fails
MappedBefore(entries) ==
    IF \A i \in 1..Len(entries) : PlaceExc(entries[i]) = "none" THEN Len(entries)
    ELSE (CHOOSE k \in 1..Len(entries) :
              /\ PlaceExc(entries[k]) # "none"
              /\ \A m \in 1..(k - 1) : PlaceExc(entries[m]) = "none") - 1

\* The exception raised inside the try block, "none" when the list is returned
PlacesInner(resp) ==
    IF resp.search # "ok" THEN resp.search                  \* gmaps.places
    ELSE IF resp.results = "absent" THEN "none"
    ELSE IF resp.results = "null" THEN "TypeError"          \* for place in None
    ELSE IF MappedBefore(resp.entries) = Len(resp.entries) THEN "none"
    ELSE PlaceExc(resp.entries[MappedBefore(resp.entries) + 1])

\* One invocation of find_places_of_interest with the module's
\* GOOGLE_PLACES_API_KEY and an upstream response.
find_places_of_interest(key, resp) ==
    LET start == << LogEvent("INFO", "places", "Finding places of interest", FALSE) >>
        entries == IF resp.search = "ok" /\ resp.results = "list"
                   THEN resp.entries ELSE << >>
        n == MappedBefore(entries)
        mapped == [i \in 1..n |-> MapPlace(entries[i])]
        found == [i \in 1..n |-> LogEvent("INFO", "places", "Found", FALSE)]
        exc == PlacesInner(resp)
    IN  IF Falsy(key)
        THEN [result |-> << >>, escaped |-> "ValueError", inner |-> "none",
              requests |-> 0, logged |-> << >>]
        ELSE IF ClientExc(key) # "none"
        THEN [result |-> << >>, escaped |-> ClientExc(key), inner |-> "none",
              requests |-> 0, logged |-> start]
        ELSE IF exc = "none"
        THEN [result |-> mapped, escaped |-> "none", inner |-> "none",
              requests |-> 1,
              logged |-> start \o found
                         \o << LogEvent("INFO", "places", "Found places", FALSE) >>]
        ELSE IF PlacesHandler(exc) = "escapes"
        THEN [result |-> << >>, escaped |-> exc, inner |-> exc, requests |-> 1,
              logged |-> start \o found]
        ELSE [result |-> PlacesFailureResult(mapped), escaped |-> "none",
              inner |-> exc, requests |-> 1,
              logged |-> start \o found \o PlacesErrorLog(exc)]

\* Upstream responses.  search: "ok" when gmaps.places returns, else the
\* exception it raises; results: what the response's 'results' is; entries:
\* its elements when it is a list.
PlacesResponse(search, results, entries) ==
    [search |-> search, results |-> results, entries |-> entries]

\* Sequences over S of length at most n
SeqsUpTo(S, n) == UNION { [1..m -> S] : m \in 0..n }

PlacesResponsesUpTo(n) ==
    { PlacesResponse(x, "absent", << >>) : x \in {"ApiError", "TransportError", "Timeout"} }
    \cup { PlacesResponse("ok", r, << >>) : r \in {"absent", "null"} }
    \cup { PlacesResponse("ok", "list", es) : es \in SeqsUpTo(PlaceKinds, n) }

PlacesResponses == PlacesResponsesUpTo(MaxPlaces)

NoPlacesCall ==
    [state |-> "idle", resp |-> PlacesResponse("ok", "absent", << >>),
     result |-> << >>, escaped |-> "none", inner |-> "none", requests |-> 0,
     logged |-> << >>]

----------------------------------------------------------------------------
(* The command-line entry point *)

Chars == { " ", "a" }
IsSpace(c) == c \in { " " }

CityInputs == SeqsUpTo(Chars, MaxCityLen)

RECURSIVE LStrip(_)
LStrip(s) ==
    IF s = << >> THEN s
    ELSE IF IsSpace(Head(s)) THEN LStrip(Tail(s))
    ELSE s

RECURSIVE RStrip(_)
RStrip(s) ==
    IF s = << >> THEN s
    ELSE IF IsSpace(s[Len(s)]) THEN RStrip(SubSeq(s, 1, Len(s) - 1))
    ELSE s

\* Mutant of Strip: the input is not stripped
NoStrip(s) == s

\* str.strip()
Strip(s) == RStrip(LStrip(s))

NotTyped == [read |-> FALSE, text |-> << >>]
Typed(s) == [read |-> TRUE, text |-> s]

NoPrompt == [built |-> FALSE, city |-> << >>]
\* prompt = f"I'm planning a trip within the next 24 hours to {city}. ..."
BuildPrompt(c) == [built |-> TRUE, city |-> c]

EmptyCityMsg == "City name cannot be empty."
InputRejectedMsg ==
    "Please give me the destination city that you want to travel to within the next 24 hours."
RephraseMsg == "Please try rephrasing your request."
GenericFailureMsg == "An unexpected error occurred. Please try again later."

FinalOutputs == { "# Itinerary" }

NoNet == [llm |-> 0, weather |-> 0, places |-> 0]

\* InputScanOutput / OutputScanResult as the guardrail agents produce them
InputScans == { [is_off_topic |-> b, reason |-> "r"] : b \in BOOLEAN }
OutputScans == { [contains_profanity |-> b, explanation |-> "e"] : b \in BOOLEAN }

\* Mutant of safe_input_guardrail: the tripwire is never triggered
safe_input_guardrail_no_tripwire(scan) ==
    [output_info |-> scan, tripwire_triggered |-> FALSE]

\* GuardrailFunctionOutput returned by safe_input_guardrail
safe_input_guardrail(scan) ==
    [output_info |-> scan, tripwire_triggered |-> scan.is_off_topic]

\* GuardrailFunctionOutput returned by output_safety_guardrail
output_safety_guardrail(scan) ==
    [output_info |-> scan, tripwire_triggered |-> scan.contains_profanity]

\* Mutant of HandlerMessage: `except Exception` comes first and takes the
\* guardrail exceptions too
HandlerMessageGenericFirst(outc, final) ==
    IF outc = "final" THEN final ELSE "An unexpected error occurred. Please try again later."

\* What the try statement of the entry point prints for each way
\* Runner.run_sync ends
HandlerMessage(outc, final) ==
    IF outc = "final" THEN final
    ELSE IF outc = "input_tripwire" THEN InputRejectedMsg
    ELSE IF outc = "output_tripwire" THEN RephraseMsg
    ELSE GenericFailureMsg

\* What it logs: logger.exception writes the message and the stack trace
HandlerLog(outc) ==
    IF outc \in {"final", "input_tripwire", "output_tripwire"} THEN << >>
    ELSE << LogEvent("ERROR", "main", "Unexpected error during TravelAdvisor execution", TRUE) >>

\* Runner.run_sync ends with outc; the try statement handles it and the
\* script ends
Finish(outc, final) ==
    /\ outcome' = outc
    /\ out' = Append(out, HandlerMessage(outc, final))
    /\ log' = log \o HandlerLog(outc)
    /\ pc' = "done"
    /\ exitStatus' = 0

NoToolPending == weather.state # "pending" /\ places.state # "pending"

----------------------------------------------------------------------------
(* Actions *)

\* Module start-up: the environment is read and checked
LoadModule ==
    /\ pc = "start"
    /\ IF FirstMissing(env) # ""
       THEN /\ log' = Append(log, LogEvent("ERROR", "startup",
                                 "Missing required environment variable", FALSE))
            /\ uncaught' = "RuntimeError"
            /\ exitStatus' = 1
            /\ pc' = "crashed"
       ELSE /\ pc' = "main"
            /\ UNCHANGED <<log, uncaught, exitStatus>>
    /\ UNCHANGED <<env, rawCity, city, prompt, out, net, runs, inputScan,
                   outcome, toolCalls, weather, places>>

\* input(...).strip(), the empty-city check, the prompt and the call of
\* Runner.run_sync
ReadCity(typed) ==
    /\ pc = "main"
    /\ rawCity' = Typed(typed)
    /\ city' = Strip(typed)
    /\ IF Strip(typed) = << >>
       THEN /\ out' = Append(out, EmptyCityMsg)
            /\ exitStatus' = 1
            /\ pc' = "exited"
            /\ UNCHANGED <<log, prompt, runs>>
       ELSE /\ log' = Append(log, LogEvent("INFO", "main", "Running TravelAdvisor", FALSE))
            /\ prompt' = BuildPrompt(Strip(typed))
            /\ runs' = runs + 1
            /\ pc' = "running"
            /\ UNCHANGED <<out, exitStatus>>
    /\ UNCHANGED <<env, net, uncaught, inputScan, outcome, toolCalls, weather, places>>

\* The agent runtime runs the input guardrail; a triggered tripwire ends the
\* run with InputGuardrailTripwireTriggered
InputGuardrail(scan) ==
    /\ pc = "running"
    /\ inputScan = "none"
    /\ NoToolPending
    /\ inputScan' = IF scan.is_off_topic THEN "off_topic" ELSE "on_topic"
    /\ net' = [net EXCEPT !.llm = @ + 1]
    /\ IF safe_input_guardrail(scan).tripwire_triggered
       THEN Finish("input_tripwire", "")
       ELSE UNCHANGED <<outcome, out, log, pc, exitStatus>>
    /\ UNCHANGED <<env, rawCity, city, prompt, uncaught, runs, toolCalls, weather, places>>

\* The agent runtime invokes get_weather_forecast; upstream will answer resp
AgentCallsWeather(resp) ==
    /\ pc = "running"
    /\ toolCalls < MaxToolCalls
    /\ NoToolPending
    /\ toolCalls' = toolCalls + 1
    /\ weather' = [NoWeatherCall EXCEPT !.state = "pending", !.resp = resp]
    /\ UNCHANGED <<pc, env, rawCity, city, prompt, out, log, net, exitStatus,
                   uncaught, runs, inputScan, outcome, places>>

\* get_weather_forecast runs
RunWeather ==
    /\ pc = "running"
    /\ weather.state = "pending"
    /\ LET r == get_weather_forecast(weather.resp)
       IN  /\ weather' = [state |-> IF r.escaped = "none" THEN "returned" ELSE "raised",
                          resp |-> weather.resp, result |-> r.result,
                          escaped |-> r.escaped, inner |-> r.inner,
                          requests |-> r.requests, logged |-> r.logged]
           /\ log' = log \o r.logged
           /\ net' = [net EXCEPT !.weather = @ + r.requests]
    /\ UNCHANGED <<pc, env, rawCity, city, prompt, out, exitStatus, uncaught,
                   runs, inputScan, outcome, toolCalls, places>>

\* The agent runtime invokes find_places_of_interest; upstream will answer resp
AgentCallsPlaces(resp) ==
    /\ pc = "running"
    /\ toolCalls < MaxToolCalls
    /\ NoToolPending
    /\ toolCalls' = toolCalls + 1
    /\ places' = [NoPlacesCall EXCEPT !.state = "pending", !.resp = resp]
    /\ UNCHANGED <<pc, env, rawCity, city, prompt, out, log, net, exitStatus,
                   uncaught, runs, inputScan, outcome, weather>>

\* find_places_of_interest runs
RunPlaces ==
    /\ pc = "running"
    /\ places.state = "pending"
    /\ LET r == find_places_of_interest(env["GOOGLE_PLACES_API_KEY"], places.resp)
       IN  /\ places' = [state |-> IF r.escaped = "none" THEN "returned" ELSE "raised",
                         resp |-> places.resp, result |-> r.result,
                         escaped |-> r.escaped, inner |-> r.inner,
                         requests |-> r.requests, logged |-> r.logged]
           /\ log' = log \o r.logged
           /\ net' = [net EXCEPT !.places = @ + r.requests]
    /\ UNCHANGED <<pc, env, rawCity, city, prompt, out, exitStatus, uncaught,
                   runs, inputScan, outcome, toolCalls, weather>>

\* The agent produces its final output and the runtime runs the output
\* guardrail on it
AgentFinishes(final, scan) ==
    /\ pc = "running"
    /\ inputScan = "on_topic"
    /\ NoToolPending
    /\ net' = [net EXCEPT !.llm = @ + 1]
    /\ IF output_safety_guardrail(scan).tripwire_triggered
       THEN Finish("output_tripwire", "")
       ELSE Finish("final", final)
    /\ UNCHANGED <<env, rawCity, city, prompt, uncaught, runs, inputScan,
                   toolCalls, weather, places>>

\* Runner.run_sync raises anything else
RunnerRaises ==
    /\ pc = "running"
    /\ NoToolPending
    /\ Finish("exception", "")
    /\ UNCHANGED <<env, rawCity, city, prompt, net, uncaught, runs, inputScan,
                   toolCalls, weather, places>>

----------------------------------------------------------------------------
(* Specifications *)

\* The whole program; the agent runtime draws the tools' upstream responses
\* from these
MainWeatherResponses ==
    { WeatherResponse("fail", "ok", "object", Absent, "absent", << >>),
      WeatherResponse("ok", "ok", "object", JStr("404"), "absent", << >>),
      WeatherResponse("ok", "ok", "object", JStr("200"), "null", << >>),
      WeatherResponse("ok", "ok", "object", JStr("200"), "list", << E1 >>) }

MainPlacesResponses ==
    { PlacesResponse("ApiError", "absent", << >>),
      PlacesResponse("Timeout", "absent", << >>),
      PlacesResponse("ok", "list", << P1 >>) }

Init ==
    /\ pc = "start"
    /\ env \in Environments
    /\ rawCity = NotTyped
    /\ city = << >>
    /\ prompt = NoPrompt
    /\ out = << >>
    /\ log = << >>
    /\ net = NoNet
    /\ exitStatus = -1
    /\ uncaught = "none"
    /\ runs = 0
    /\ inputScan = "none"
    /\ outcome = "none"
    /\ toolCalls = 0
    /\ weather = NoWeatherCall
    /\ places = NoPlacesCall

Next ==
    \/ LoadModule
    \/ \E typed \in CityInputs : ReadCity(typed)
    \/ \E scan \in InputScans : InputGuardrail(scan)
    \/ \E resp \in MainWeatherResponses : AgentCallsWeather(resp)
    \/ RunWeather
    \/ \E resp \in MainPlacesResponses : AgentCallsPlaces(resp)
    \/ RunPlaces
    \/ \E final \in FinalOutputs, scan \in OutputScans : AgentFinishes(final, scan)
    \/ RunnerRaises

Spec == Init /\ [][Next]_vars

\* The state in which the agent runtime, in a run for city "a", has just
\* invoked a tool
InRun(key) ==
    /\ pc = "running"
    /\ env = [k \in EnvKeySet |-> IF k = "GOOGLE_PLACES_API_KEY" THEN key
                                    ELSE EnvStr("secret")]
    /\ rawCity = Typed(<< "a" >>)
    /\ city = << "a" >>
    /\ prompt = BuildPrompt(<< "a" >>)
    /\ out = << >>
    /\ log = << LogEvent("INFO", "main", "Running TravelAdvisor", FALSE) >>
    /\ net = NoNet
    /\ exitStatus = -1
    /\ uncaught = "none"
    /\ runs = 1
    /\ inputScan = "none"
    /\ outcome = "none"
    /\ toolCalls = 1

\* get_weather_forecast on every upstream response
InitWeather ==
    /\ InRun(GoodGoogleKey)
    /\ \E resp \in WeatherResponses :
           weather = [NoWeatherCall EXCEPT !.state = "pending", !.resp = resp]
    /\ places = NoPlacesCall

SpecWeather == InitWeather /\ [][RunWeather]_vars

\* find_places_of_interest on every upstream response, with each key that
\* passes the start-up check
InitPlaces ==
    /\ \E key \in { GoodGoogleKey, OtherGoogleKey } : InRun(key)
    /\ weather = NoWeatherCall
    /\ \E resp \in PlacesResponses :
           places = [NoPlacesCall EXCEPT !.state = "pending", !.resp = resp]

SpecPlaces == InitPlaces /\ [][RunPlaces]_vars

----------------------------------------------------------------------------
(* Properties of get_weather_forecast, checked under SpecWeather *)

WeatherDone == weather.state \in {"returned", "raised"}

IsSentinel(result) ==
    /\ Len(result) = 1
    /\ result[1].time = ""
    /\ result[1].temp = ""
    /\ result[1].description # ""

IsForecast(result) ==
    /\ Len(result) <= ForecastLimit
    /\ \A i \in 1..Len(result) :
           /\ result[i].time # ""
           /\ result[i].description # ""
           /\ result[i].temp # ""

\* C3: whatever the upstream answers, get_weather_forecast lets no exception
\* escape and returns either at most eight entries, each with a non-empty
\* time, description and temp, or exactly one sentinel entry.
C3_WeatherShapeAlways ==
    WeatherDone =>
        /\ weather.escaped = "none"
        /\ IsForecast(weather.result) \/ IsSentinel(weather.result)

\* An element of the upstream list that carries the three fields the code
\* reads, with the types it needs
WellFormed(e) ==
    /\ e.shape = "dict"
    /\ e.dt.t = "str"
    /\ e.weather = "obj"
    /\ e.desc.t = "str"
    /\ e.main = "obj"
    /\ e.temp.t = "num"

\* A successful response: the request and the status are fine, the body is
\* an object with cod "200" and a list whose first eight elements are
\* well-formed
WeatherSuccessful(r) ==
    /\ r.transport = "ok"
    /\ r.http = "ok"
    /\ r.body = "object"
    /\ r.cod = [t |-> "str", v |-> "200"]
    /\ r.list = "list"
    /\ \A i \in 1..Len(r.entries) : i <= ForecastLimit => WellFormed(r.entries[i])

\* C7: on a successful response with n forecast entries the result has
\* min(n, 8) records and the i-th record is the (time, description,
\* temperature) of the i-th upstream entry.
C7_FirstEightInOrder ==
    (WeatherDone /\ WeatherSuccessful(weather.resp)) =>
        LET es == weather.resp.entries
            n == Len(es)
        IN  /\ weather.state = "returned"
            /\ Len(weather.result) = (IF n <= ForecastLimit THEN n ELSE ForecastLimit)
            /\ \A i \in 1..Len(weather.result) :
                   /\ weather.result[i].time = es[i].dt.v
                   /\ weather.result[i].description = es[i].desc.v
                   /\ weather.result[i].temp = es[i].temp.v \o "°C"

\* C7's case: more than eight well-formed entries, not all alike, were mapped
C7_Witness ==
    /\ weather.state = "returned"
    /\ WeatherSuccessful(weather.resp)
    /\ Len(weather.resp.entries) > ForecastLimit
    /\ weather.resp.entries[2] # weather.resp.entries[1]
    /\ Len(weather.result) = ForecastLimit
    /\ weather.result[2] # weather.result[1]

\* The request succeeded and the body is an object whose "cod" is not the
\* string "200"
CodRejected(r) ==
    /\ r.transport = "ok"
    /\ r.http = "ok"
    /\ r.body = "object"
    /\ ~(r.cod.t = "str" /\ r.cod.v = "200")

\* C10: when the request succeeds and the body's "cod" is not the string
\* "200", the wrapper returns the single sentinel entry, with empty time and
\* temp, and no forecast entry, whatever the body's list holds.
C10_CodIsAuthoritative ==
    (WeatherDone /\ CodRejected(weather.resp)) =>
        /\ weather.state = "returned"
        /\ Len(weather.result) = 1
        /\ weather.result[1].time = ""
        /\ weather.result[1].temp = ""

\* C10's case: the number 200 as "cod", with a non-empty list of forecasts
C10_Witness ==
    /\ weather.state = "returned"
    /\ weather.resp.transport = "ok"
    /\ weather.resp.http = "ok"
    /\ weather.resp.body = "object"
    /\ weather.resp.cod = [t |-> "num", v |-> "200"]
    /\ weather.resp.list = "list"
    /\ Len(weather.resp.entries) > 0
    /\ WellFormed(weather.resp.entries[1])
    /\ IsSentinel(weather.result)

----------------------------------------------------------------------------
(* Properties of find_places_of_interest, checked under SpecPlaces *)

PlacesDone == places.state \in {"returned", "raised"}

GoogleKey == env["GOOGLE_PLACES_API_KEY"]

\* C4 as stated: whenever creating the places client or the places search
\* fails, the wrapper raises nothing and returns an empty list.
C4_NoRaiseOnClientOrSearchFailure ==
    (PlacesDone /\ (GoogleKey # GoodGoogleKey \/ places.resp.search = "ApiError")) =>
        /\ places.escaped = "none"
        /\ places.result = << >>

\* C4 as amended: whenever the places search fails with an API error, the
\* wrapper raises nothing and returns an empty list.
C4_NoRaiseOnSearchFailure ==
    (PlacesDone /\ GoogleKey = GoodGoogleKey /\ places.resp.search = "ApiError") =>
        /\ places.state = "returned"
        /\ places.escaped = "none"
        /\ places.result = << >>

\* C4's case: the search raised ApiError and the wrapper returned
C4_Witness ==
    /\ places.state = "returned"
    /\ GoogleKey = GoodGoogleKey
    /\ places.resp.search = "ApiError"
    /\ places.requests = 1
    /\ places.result = << >>

\* The name and description the record of an upstream place must carry
ExpectedName(p) ==
    IF p.name.t = "absent" THEN [t |-> "str", v |-> "No name provided"] ELSE p.name
ExpectedDescription(p) ==
    IF p.formatted_address.t = "absent"
    THEN [t |-> "str", v |-> "No address provided"] ELSE p.formatted_address

\* C8: the returned list is either the complete, order-preserving mapping of
\* the upstream results or empty; when one result cannot be mapped, the
\* records already mapped are discarded.
C8_AllOrNothing ==
    (places.state = "returned" /\ places.resp.search = "ok"
        /\ places.resp.results = "list") =>
        LET es == places.resp.entries
        IN  /\ \/ places.result = << >>
               \/ /\ Len(places.result) = Len(es)
                  /\ \A i \in 1..Len(es) :
                         /\ places.result[i].name = ExpectedName(es[i])
                         /\ places.result[i].description = ExpectedDescription(es[i])
            /\ (\E i \in 1..Len(es) : PlaceExc(es[i]) # "none") => places.result = << >>
            /\ (\A i \in 1..Len(es) : PlaceExc(es[i]) = "none") =>
                   Len(places.result) = Len(es)

\* C8's case: the first result was mapped, the second could not be, and the
\* wrapper returned nothing
C8_Witness ==
    /\ places.state = "returned"
    /\ places.resp.search = "ok"
    /\ places.resp.results = "list"
    /\ Len(places.resp.entries) >= 2
    /\ PlaceExc(places.resp.entries[1]) = "none"
    /\ PlaceExc(places.resp.entries[2]) # "none"
    /\ places.result = << >>

----------------------------------------------------------------------------
(* Properties of the program, checked under Spec *)

\* A required variable is unset or empty
Missing(value) == value = [set |-> FALSE, v |-> ""] \/ value = [set |-> TRUE, v |-> ""]

SomeMissing == \E k \in DOMAIN env : Missing(env[k])

\* C1: when one of the three required environment variables is unset or
\* empty, start-up ends with an error; no network request is made, the agent
\* is not invoked and the city prompt is not reached.
C1_MissingEnvFailsBeforeAnyCall ==
    SomeMissing =>
        /\ pc \in {"start", "crashed"}
        /\ net = NoNet
        /\ runs = 0
        /\ toolCalls = 0
        /\ ~rawCity.read
        /\ out = << >>
        /\ pc = "crashed" =>
               /\ uncaught = "RuntimeError"
               /\ exitStatus = 1
               /\ HasError(log)

\* C1's case: only WEATHER_API_KEY is missing, being empty, and start-up has
\* failed
C1_Witness ==
    /\ pc = "crashed"
    /\ ~Missing(env["OPENAI_API_KEY"])
    /\ ~Missing(env["GOOGLE_PLACES_API_KEY"])
    /\ env["WEATHER_API_KEY"] = [set |-> TRUE, v |-> ""]
    /\ uncaught = "RuntimeError"

\* The typed text holds nothing but whitespace
Blank(s) == \A i \in 1..Len(s) : s[i] = " "

\* C2: when the city typed is empty after trimming, the program exits with
\* status 1, builds no prompt and never invokes the agent.
C2_EmptyCityExitsOne ==
    (rawCity.read /\ Blank(rawCity.text)) =>
        /\ pc = "exited"
        /\ exitStatus = 1
        /\ ~prompt.built
        /\ runs = 0
        /\ toolCalls = 0
        /\ net = NoNet
        /\ out = << EmptyCityMsg >>

\* C2's case: only spaces were typed and the program has exited
C2_Witness ==
    /\ rawCity.read
    /\ Len(rawCity.text) > 0
    /\ Blank(rawCity.text)
    /\ pc = "exited"
    /\ exitStatus = 1

\* C5: when the input guardrail finds the input off-topic, the program
\* prints the fixed rejection message and nothing else, and does nothing
\* more: the agent is invoked once and no step follows.
C5_OffTopicPrintsRejectionOnly ==
    inputScan = "off_topic" =>
        /\ pc = "done"
        /\ outcome = "input_tripwire"
        /\ out = << InputRejectedMsg >>
        /\ runs = 1
        /\ ~ENABLED Next

\* C5's case: the input was found off-topic after the runtime had called a tool
C5_Witness ==
    /\ inputScan = "off_topic"
    /\ toolCalls > 0
    /\ pc = "done"
    /\ out = << InputRejectedMsg >>

\* The message each way of ending a run must print
RightMessage ==
    /\ Len(out) = 1
    /\ outcome = "final" => out[1] \in FinalOutputs
    /\ outcome = "input_tripwire" => out[1] = InputRejectedMsg
    /\ outcome = "output_tripwire" => out[1] = RephraseMsg
    /\ outcome = "exception" => out[1] = GenericFailureMsg
    /\ outcome \in {"final", "input_tripwire", "output_tripwire", "exception"}

\* A stack trace written by the entry point's own handler
HasMainTrace(events) ==
    \E i \in 1..Len(events) : events[i].trace /\ events[i].src = "main"

\* C6 as stated: a run that invokes the agent prints exactly one message,
\* the one of its outcome, and the log holds a stack trace exactly when the
\* outcome is the unexpected exception.
C6_OneMessageTraceOnlyOnException ==
    (runs > 0 /\ pc = "done") =>
        /\ RightMessage
        /\ HasTrace(log) <=> outcome = "exception"

\* C6 as amended: the same, for the stack trace that the entry point's
\* handler writes; the tool wrappers write stack traces of their own.
C6_OneMessageMainTraceOnlyOnException ==
    (runs > 0 /\ pc = "done") =>
        /\ RightMessage
        /\ HasMainTrace(log) <=> outcome = "exception"
        /\ outcome = "exception" => HasTrace(log)

\* C6's case: the run ended with an unexpected exception
C6_Witness ==
    /\ runs > 0
    /\ pc = "done"
    /\ outcome = "exception"
    /\ out = << GenericFailureMsg >>
    /\ HasMainTrace(log)

\* C9: a wrapper issues at most one upstream request per invocation, and
\* when the request or the parsing of its response fails it logs an error
\* and returns its sentinel (weather) or empty (places) result.
C9_OneRequestErrorLogged ==
    /\ WeatherDone =>
           /\ weather.requests <= 1
           /\ weather.inner # "none" =>
                  /\ HasError(weather.logged)
                  /\ weather.state = "returned"
                  /\ IsSentinel(weather.result)
    /\ PlacesDone =>
           /\ places.requests <= 1
           /\ places.inner # "none" =>
                  /\ HasError(places.logged)
                  /\ places.state = "returned"
                  /\ places.result = << >>

====
